---- MODULE Spec2Model ----
(***************************************************************************)
(* Model of the AI API integration backend: the prompt validator           *)
(* (models/schemas.py), the OpenAI client with its retry decorator         *)
(* (services/openai_service.py), the SQLite conversation store             *)
(* (services/database_service.py), the controllers and the HTTP routes.    *)
(*                                                                         *)
(* Each request is served by one coroutine; an action is the code that     *)
(* runs between two awaits of that coroutine.                              *)
(***************************************************************************)
EXTENDS Integers, Sequences, FiniteSets, TLC

(***************************************************************************)
(* Bounds of the model.                                                    *)
(***************************************************************************)
NumProcs == 2      \* coroutines serving requests concurrently (SpecConc)
MaxRows == 3       \* rows the store may hold plus saves in flight
MaxFaults == 2     \* injected store faults per behaviour
MaxClock == 1      \* readings the wall clock can take are 0..MaxClock
MaxRowsAsk == 1    \* the same as MaxRows, in the specification of the pipeline
MaxRowsConc == 2   \* the same as MaxRows, in the concurrent specification
MaxCounted == 2    \* upstream attempts that hUsage counts

(***************************************************************************)
(* Program constants.                                                      *)
(***************************************************************************)
MaxAttempts == 3       \* stop_after_attempt(3)
MinLength == 1         \* Field(min_length=1)
MaxLength == 4000      \* Field(max_length=4000)
MinMeaningful == 2     \* len(v.strip()) < 2
RepeatMin == 49        \* (.)\1{49,}: one character followed by 49 copies

Procs == 1..NumProcs
NoProc == 0

(***************************************************************************)
(* Python str operations, on TLA+ strings.                                 *)
(***************************************************************************)
Char(s, i) == SubSeq(s, i, i)

IsSpace(c) == c \in {" ", "\t", "\n", "\r"}

UpperCase == "ABCDEFGHIJKLMNOPQRSTUVWXYZ"
LowerCase == "abcdefghijklmnopqrstuvwxyz"

LowerChar(c) ==
    IF \E i \in 1..Len(UpperCase) : Char(UpperCase, i) = c
    THEN Char(LowerCase, CHOOSE i \in 1..Len(UpperCase) : Char(UpperCase, i) = c)
    ELSE c

\* s.lower(), by halves
RECURSIVE lower(_)
lower(s) ==
    IF Len(s) = 0 THEN ""
    ELSE IF Len(s) = 1 THEN LowerChar(s)
    ELSE lower(SubSeq(s, 1, Len(s) \div 2)) \o lower(SubSeq(s, Len(s) \div 2 + 1, Len(s)))

\* s.strip(): from the first to the last character that is no whitespace
strip(s) ==
    LET inked == {i \in 1..Len(s) : ~IsSpace(Char(s, i))} IN
    IF inked = {} THEN ""
    ELSE SubSeq(s, CHOOSE i \in inked : \A j \in inked : i <= j,
                   CHOOSE i \in inked : \A j \in inked : j <= i)

\* pat in s
Contains(s, pat) ==
    \E i \in 1..(Len(s) - Len(pat) + 1) : SubSeq(s, i, i + Len(pat) - 1) = pat

\* pat occurs in s at position i
At(s, i, pat) == i + Len(pat) - 1 <= Len(s) /\ SubSeq(s, i, i + Len(pat) - 1) = pat

(***************************************************************************)
(* Exceptions: a class name and str(e).  IsInstance is the class hierarchy *)
(* the except clauses and the retry predicate test against.                *)
(***************************************************************************)
NoExc == [type |-> "", msg |-> ""]
Exc(t, m) == [type |-> t, msg |-> m]

OpenAIClasses ==
    {"OpenAIError", "APIError", "APIConnectionError", "APITimeoutError",
     "APIStatusError", "AuthenticationError", "RateLimitError"}

Parent(c) ==
    CASE c = "APITimeoutError" -> "APIConnectionError"
      [] c = "APIConnectionError" -> "APIError"
      [] c = "APIStatusError" -> "APIError"
      [] c = "AuthenticationError" -> "APIStatusError"
      [] c = "RateLimitError" -> "APIStatusError"
      [] c = "APIError" -> "OpenAIError"
      [] OTHER -> "Exception"

RECURSIVE IsInstance(_, _)
IsInstance(c, base) ==
    IF c = base THEN TRUE
    ELSE IF c = "Exception" \/ c = "" THEN FALSE
    ELSE IsInstance(Parent(c), base)

(***************************************************************************)
(* models/schemas.py: AskAIRequest.                                        *)
(***************************************************************************)
\* re.search(r'<script[^>]*>.*?</script>', v, re.IGNORECASE): no DOTALL, so
\* the body of the block holds no newline.
MatchesScriptTag(v) ==
    LET w == lower(v) IN
    \E i \in 1..Len(w), k \in 1..Len(w), j \in 1..Len(w) :
        /\ At(w, i, "<script")
        /\ k >= i + 7
        /\ Char(w, k) = ">"
        /\ \A m \in (i + 7)..(k - 1) : Char(w, m) # ">"
        /\ j > k
        /\ At(w, j, "</script>")
        /\ \A m \in (k + 1)..(j - 1) : Char(w, m) # "\n"

harmful_patterns(v) ==
    \/ MatchesScriptTag(v)
    \/ Contains(lower(v), "javascript:")
    \/ Contains(lower(v), "data:text/html")

\* re.search(r'(.)\1{49,}', v): a character other than newline and at least
\* RepeatMin more copies of it.
ExcessiveRepetition(v) ==
    \E i \in 1..(Len(v) - RepeatMin) :
        /\ Char(v, i) # "\n"
        /\ \A m \in (i + 1)..(i + RepeatMin) : Char(v, m) = Char(v, i)

\* validate_prompt without its check of the stripped length.
validate_prompt_NoMinimum(v) ==
    IF Len(v) < MinLength THEN [ok |-> FALSE, value |-> v, msg |-> "min_length"]
    ELSE IF Len(v) > MaxLength THEN [ok |-> FALSE, value |-> v, msg |-> "max_length"]
    ELSE IF v = "" THEN [ok |-> FALSE, value |-> v, msg |-> "Prompt is required"]
    ELSE IF strip(v) = "" THEN
        [ok |-> FALSE, value |-> v,
         msg |-> "Prompt cannot be empty or contain only whitespace"]
    ELSE IF harmful_patterns(v) THEN
        [ok |-> FALSE, value |-> v, msg |-> "Prompt contains potentially harmful content"]
    ELSE IF ExcessiveRepetition(v) THEN
        [ok |-> FALSE, value |-> v, msg |-> "Prompt contains excessive character repetition"]
    ELSE [ok |-> TRUE, value |-> strip(v), msg |-> ""]

\* The Field constraints run first, then the validator; a failure of either
\* is a validation error of the request body.
validate_prompt(v) ==
    IF Len(v) < MinLength THEN [ok |-> FALSE, value |-> v, msg |-> "min_length"]
    ELSE IF Len(v) > MaxLength THEN [ok |-> FALSE, value |-> v, msg |-> "max_length"]
    ELSE IF v = "" THEN [ok |-> FALSE, value |-> v, msg |-> "Prompt is required"]
    ELSE IF strip(v) = "" THEN
        [ok |-> FALSE, value |-> v,
         msg |-> "Prompt cannot be empty or contain only whitespace"]
    ELSE IF Len(strip(v)) < MinMeaningful THEN
        [ok |-> FALSE, value |-> v,
         msg |-> "Prompt must contain at least 2 meaningful characters"]
    ELSE IF harmful_patterns(v) THEN
        [ok |-> FALSE, value |-> v, msg |-> "Prompt contains potentially harmful content"]
    ELSE IF ExcessiveRepetition(v) THEN
        [ok |-> FALSE, value |-> v, msg |-> "Prompt contains excessive character repetition"]
    ELSE [ok |-> TRUE, value |-> strip(v), msg |-> ""]

(***************************************************************************)
(* HTTP replies.  One record shape for every endpoint; the fields an       *)
(* endpoint does not send keep the value they have in NoReply.             *)
(***************************************************************************)
\* api_validation of the health report when no validation was asked for.
NoValidation == [valid |-> FALSE, model_available |-> FALSE, model |-> "", message |-> ""]

NoReply ==
    [status |-> 0, error |-> "", error_code |-> "", message |-> "",
     suggestions |-> <<>>, prompt |-> "", response |-> "", timestamp |-> 0,
     model |-> "", conversations |-> <<>>, total_count |-> 0, deleted_count |-> 0,
     health |-> "", total_requests |-> 0, total_tokens_used |-> 0,
     api_validation |-> NoValidation, details |-> ""]

\* routes/ai_routes.py: get_validation_suggestions
get_validation_suggestions(error_code) ==
    CASE error_code = "EMPTY_PROMPT" ->
            <<"Please provide a non-empty prompt",
              "Ensure your prompt contains actual text, not just spaces">>
      [] error_code = "INSUFFICIENT_CONTENT" ->
            <<"Please provide a prompt with at least 2 meaningful characters",
              "Try asking a complete question or making a clear statement">>
      [] error_code = "HARMFUL_CONTENT" ->
            <<"Please remove any script tags or potentially harmful content",
              "Ensure your prompt contains only safe, plain text">>
      [] error_code = "EXCESSIVE_REPETITION" ->
            <<"Please avoid repeating the same character many times",
              "Try rephrasing your prompt with varied content">>
      [] error_code = "INVALID_INPUT" ->
            <<"Please check your input format",
              "Ensure your prompt meets the validation requirements">>
      [] OTHER -> <<"Please check your input and try again">>

\* main.py: validation_exception_handler, the reply to a request body that
\* fails AskAIRequest's validation.
validation_exception_handler(msg) ==
    [NoReply EXCEPT
        !.status = 422,
        !.error = "Validation Error",
        !.message = "Request validation failed. Please check your input.",
        !.details =
            IF msg = "min_length" THEN "Field 'body.prompt' must not be empty"
            ELSE IF msg = "max_length" THEN
                "Field 'body.prompt' must not exceed 4000 characters"
            ELSE IF Contains(lower(msg), "whitespace") THEN
                "Field 'body.prompt' cannot contain only whitespace"
            ELSE "body.prompt: " \o msg,
        !.suggestions =
            <<"Ensure all required fields are provided",
              "Check that field values meet the specified requirements",
              "Verify that your prompt is not empty and contains meaningful content">>]

\* routes/ai_routes.py: get_ai_controller, when OpenAIService() raises.
ConfigurationErrorReply ==
    [NoReply EXCEPT
        !.status = 500,
        !.error = "Service Configuration Error",
        !.message =
            "AI service is not properly configured. Please check your environment variables."]

\* routes/ai_routes.py: ask_ai, except ValueError
ValueErrorReply(msg) ==
    LET m == lower(msg)
        error_code ==
            IF Contains(m, "empty") \/ Contains(m, "whitespace") THEN "EMPTY_PROMPT"
            ELSE IF Contains(m, "meaningful characters") THEN "INSUFFICIENT_CONTENT"
            ELSE IF Contains(m, "harmful content") THEN "HARMFUL_CONTENT"
            ELSE IF Contains(m, "repetition") THEN "EXCESSIVE_REPETITION"
            ELSE "INVALID_INPUT"
    IN  [NoReply EXCEPT
            !.status = 400,
            !.error = "Invalid Input",
            !.error_code = error_code,
            !.message = msg,
            !.suggestions = get_validation_suggestions(error_code)]

\* routes/ai_routes.py: ask_ai, except RuntimeError
RuntimeErrorReply(msg) ==
    LET m == lower(msg)
        cls ==
            IF Contains(m, "rate_limit") THEN
                [status |-> 429, error_code |-> "RATE_LIMIT_EXCEEDED",
                 suggestions |-> <<"Wait a few minutes before trying again",
                                   "Consider upgrading your OpenAI plan">>]
            ELSE IF Contains(m, "quota") THEN
                [status |-> 429, error_code |-> "QUOTA_EXCEEDED",
                 suggestions |-> <<"Check your OpenAI account billing",
                                   "Add credits to your OpenAI account">>]
            ELSE IF Contains(m, "timeout") THEN
                [status |-> 504, error_code |-> "REQUEST_TIMEOUT",
                 suggestions |-> <<"Try again with a shorter prompt",
                                   "Check your internet connection">>]
            ELSE IF Contains(m, "api key") \/ Contains(m, "invalid") THEN
                [status |-> 401, error_code |-> "INVALID_API_KEY",
                 suggestions |-> <<"Check your OpenAI API key",
                                   "Ensure the API key has proper permissions">>]
            ELSE
                [status |-> 503, error_code |-> "AI_SERVICE_ERROR",
                 suggestions |-> <<"Try again in a few moments",
                                   "Contact support if the issue persists">>]
    IN  [NoReply EXCEPT
            !.status = cls.status,
            !.error = "AI Service Error",
            !.error_code = cls.error_code,
            !.message = msg,
            !.suggestions = cls.suggestions]

\* routes/ai_routes.py: ask_ai, except Exception
UnexpectedErrorReply ==
    [NoReply EXCEPT
        !.status = 500,
        !.error = "Internal Server Error",
        !.error_code = "UNEXPECTED_ERROR",
        !.message = "An unexpected error occurred while processing your request.",
        !.suggestions = <<"Try again later", "Contact support if the issue persists">>]

\* routes/ai_routes.py: ask_ai's except clauses, in their order.  A pydantic
\* ValidationError is a ValueError, but its clause comes first.
AskErrorReply(e) ==
    IF e.type = "ValueError" THEN ValueErrorReply(e.msg)
    ELSE IF e.type = "RuntimeError" THEN RuntimeErrorReply(e.msg)
    ELSE UnexpectedErrorReply

(***************************************************************************)
(* services/openai_service.py: OpenAIService.                              *)
(*                                                                         *)
(* An upstream outcome is what client.chat.completions.create does on one  *)
(* call: it raises exc with str(e) = text, or (exc = "") returns a         *)
(* response of the given shape, content and usage (tokens = 0: no usage).  *)
(***************************************************************************)
Raises(c, t) == [exc |-> c, text |-> t, shape |-> "", content |-> "", tokens |-> 0]
Returns(sh, c, n) == [exc |-> "", text |-> "", shape |-> sh, content |-> c, tokens |-> n]

UnexpectedError(m) ==
    Exc("RuntimeError",
        "An unexpected error occurred while processing your request: " \o m)

\* The shape checks without the check of the content.
ResponseShapeError_IgnoresContent(o) ==
    IF o.shape = "none" THEN
        UnexpectedError("Malformed response from OpenAI API - missing choices")
    ELSE IF o.shape = "no_choices" THEN
        UnexpectedError("No response choices returned from OpenAI API")
    ELSE IF o.shape = "no_message" THEN
        UnexpectedError("Malformed response from OpenAI API - missing message")
    ELSE NoExc

\* Lines 82-95: the shape checks.  Their RuntimeError is raised inside the
\* try block, so the final except Exception clause wraps it.
ResponseShapeError(o) ==
    IF o.shape = "none" THEN
        UnexpectedError("Malformed response from OpenAI API - missing choices")
    ELSE IF o.shape = "no_choices" THEN
        UnexpectedError("No response choices returned from OpenAI API")
    ELSE IF o.shape = "no_message" THEN
        UnexpectedError("Malformed response from OpenAI API - missing message")
    ELSE IF o.content = "" THEN
        UnexpectedError("Empty response content from OpenAI API")
    ELSE NoExc

\* Lines 107-147: the except clauses, in their order.
TranslateError(o, model) ==
    IF IsInstance(o.exc, "AuthenticationError") THEN
        Exc("RuntimeError",
            "Invalid API key or authentication failed. Please check your OpenAI API key.")
    ELSE IF IsInstance(o.exc, "RateLimitError") THEN
        IF Contains(lower(o.text), "quota") THEN
            Exc("RuntimeError",
                "API quota exceeded. Please check your OpenAI account billing and usage limits.")
        ELSE
            Exc("RuntimeError",
                "Rate limit exceeded. Please wait a moment before trying again.")
    ELSE IF IsInstance(o.exc, "APITimeoutError") THEN
        Exc("RuntimeError",
            "AI service request timed out. Please try again with a shorter prompt.")
    ELSE IF IsInstance(o.exc, "APIConnectionError") THEN
        Exc("RuntimeError",
            "Unable to connect to AI service. Please check your internet connection and try again.")
    ELSE IF IsInstance(o.exc, "OpenAIError") THEN
        LET m == lower(o.text) IN
        IF Contains(m, "model") /\ Contains(m, "not found") THEN
            Exc("RuntimeError",
                "The specified model '" \o model
                    \o "' is not available. Please check your model configuration.")
        ELSE IF Contains(m, "content_filter") THEN
            Exc("RuntimeError",
                "Your prompt was filtered due to content policy. Please rephrase your request.")
        ELSE IF Contains(m, "context_length") THEN
            Exc("RuntimeError",
                "Your prompt is too long for the selected model. Please shorten your prompt.")
        ELSE Exc("RuntimeError", "AI service error: " \o o.text)
    ELSE IF o.exc = "asyncio.TimeoutError" THEN
        Exc("RuntimeError", "Request timed out. Please try again.")
    ELSE UnexpectedError(o.text)

\* Lines 62-147: what one invocation of the function body makes of the
\* upstream outcome: the exception it raises (NoExc when it returns), the
\* text it returns and the tokens it adds to total_tokens_used.
generate_response(o, model) ==
    IF o.exc # "" THEN
        [raised |-> TranslateError(o, model), value |-> "", tokens |-> 0]
    ELSE IF ResponseShapeError(o) # NoExc THEN
        [raised |-> ResponseShapeError(o), value |-> "", tokens |-> 0]
    ELSE [raised |-> NoExc, value |-> strip(o.content), tokens |-> o.tokens]

OpenAIService_init_Unchecked(key) == NoExc

\* Lines 15-18: OpenAIService() raises when OPENAI_API_KEY is unset or empty.
OpenAIService_init(key) ==
    IF key = "" THEN Exc("ValueError", "OPENAI_API_KEY environment variable is required")
    ELSE NoExc

\* Lines 39-44: the decorator retries when the exception that leaves the
\* function body is a timeout or a connection error, and stops after
\* MaxAttempts attempts.
retry_if_exception_type_Any(e) == TRUE

retry_if_exception_type(e) ==
    IsInstance(e.type, "APITimeoutError") \/ IsInstance(e.type, "APIConnectionError")

ShouldRetry(e, attempt) ==
    e # NoExc /\ retry_if_exception_type(e) /\ attempt < MaxAttempts

validate_api_key_Pessimistic(o, model) ==
    [raised |-> NoExc,
     value |-> IF o.exc = "" THEN
                    [valid |-> TRUE, model_available |-> TRUE, model |-> model,
                     message |-> "API key is valid and model is accessible"]
               ELSE [valid |-> FALSE, model_available |-> FALSE, model |-> model,
                     message |-> "Invalid API key"]]

\* Lines 196-231: validate_api_key, given the outcome of its probe call: the
\* exception it raises (none: every clause returns) and the value it returns.
validate_api_key(o, model) ==
    [raised |-> NoExc,
     value |-> IF o.exc = "" THEN
                    [valid |-> TRUE, model_available |-> TRUE, model |-> model,
                     message |-> "API key is valid and model is accessible"]
               ELSE IF IsInstance(o.exc, "AuthenticationError") THEN
                    [valid |-> FALSE, model_available |-> FALSE, model |-> model,
                     message |-> "Invalid API key"]
               ELSE [valid |-> TRUE, model_available |-> FALSE, model |-> model,
                     message |-> "API key appears valid but model access failed: "
                                    \o o.text]]

\* controllers/ai_controller.py: the model name given to AskAIResponse and
\* to save_conversation.
ControllerModel == "gpt-3.5-turbo"

\* The values of os.getenv("OPENAI_MODEL", "gpt-3.5-turbo") the model draws
\* from: the default, when the variable is unset, and another model.
Models == {"gpt-3.5-turbo", "gpt-4"}

(***************************************************************************)
(* services/database_service.py: the SQLite database.  A database value is *)
(* the table's rows and the sqlite_sequence entry of the table (0: none).  *)
(***************************************************************************)
EmptyDb == [rows |-> <<>>, seq |-> 0]

MaxOf(S) == IF S = {} THEN 0 ELSE CHOOSE m \in S : \A x \in S : x <= m

Ids(db) == {db.rows[i].id : i \in 1..Len(db.rows)}

\* INTEGER PRIMARY KEY AUTOINCREMENT: one more than the largest rowid the
\* table ever held.
NextRowId(db) == MaxOf(Ids(db) \cup {db.seq}) + 1

\* An INSERT OR REPLACE that reuses the largest id of the table.
InsertRow_Replacing(db, prompt, response, timestamp, model) ==
    LET id == MaxOf(Ids(db) \cup {1})
        row == [id |-> id, prompt |-> prompt, response |-> response,
                timestamp |-> timestamp, model |-> model]
    IN  [rows |-> IF db.rows = <<>> THEN <<row>>
                  ELSE [db.rows EXCEPT ![Len(db.rows)] = row],
         seq |-> id]

InsertRow_Swapped(db, prompt, response, timestamp, model) ==
    [rows |-> Append(db.rows,
                     [id |-> NextRowId(db), prompt |-> response, response |-> prompt,
                      timestamp |-> timestamp, model |-> model]),
     seq |-> NextRowId(db)]

\* INSERT INTO conversations (prompt, response, timestamp, model)
InsertRow(db, prompt, response, timestamp, model) ==
    [rows |-> Append(db.rows,
                     [id |-> NextRowId(db), prompt |-> prompt, response |-> response,
                      timestamp |-> timestamp, model |-> model]),
     seq |-> NextRowId(db)]

DeleteRows_AllButLast(db) ==
    [db EXCEPT !.rows = IF Len(@) > 1 THEN <<@[Len(@)]>> ELSE <<>>]

\* DELETE FROM conversations
DeleteRows(db) == [db EXCEPT !.rows = <<>>]

\* DELETE FROM sqlite_sequence WHERE name='conversations'
ResetSequence(db) == [db EXCEPT !.seq = 0]

\* SELECT ... ORDER BY timestamp DESC: out holds every row once, later
\* timestamps first; rows of equal timestamp come in any order.
Orderings(n) == {f \in [1..n -> 1..n] : \A i, j \in 1..n : i # j => f[i] # f[j]}

Selections_Ascending(db) ==
    LET n == Len(db.rows)
        all == {[i \in 1..n |-> db.rows[f[i]]] : f \in Orderings(n)}
    IN  {out \in all : \A i, j \in 1..n : i < j => out[i].timestamp <= out[j].timestamp}

Selections(db) ==
    LET n == Len(db.rows)
        all == {[i \in 1..n |-> db.rows[f[i]]] : f \in Orderings(n)}
    IN  {out \in all : \A i, j \in 1..n : i < j => out[i].timestamp >= out[j].timestamp}

\* str(e) of the sqlite error an injected fault raises.
FaultText == "disk I/O error"

(***************************************************************************)
(* State.                                                                  *)
(***************************************************************************)
VARIABLES
    api_key,      \* os.getenv("OPENAI_API_KEY") ("" when unset)
    openai_model, \* os.getenv("OPENAI_MODEL", "gpt-3.5-turbo"): OpenAIService.model
    now,          \* the reading datetime.now() gives
    pc,           \* per coroutine: the await it is suspended at
    req,          \* per coroutine: the HTTP request it serves
    loc,          \* per coroutine: its locals and its OpenAIService instance
    sent,         \* the reply the last step sent, with its request and locals
    lock,         \* DatabaseService._connection_lock: its holder, or NoProc
    connection,   \* DatabaseService.connection is not None
    opened,       \* the number of aiosqlite connections that are open
    hLost,        \* why self.connection is None: "failed", "closed" ("" when set)
    disk,         \* the committed database
    work,         \* the database as the connection sees it
    inTx,         \* the connection has a transaction open
    faults,       \* store faults injected so far
    hLog,         \* the saves committed since the last clear, and that clear
    hUsage        \* the upstream attempts generate_response made and the tokens
                  \* their responses reported, since the process started

storeVars == <<lock, connection, opened, hLost, disk, work, inTx, hLog>>
vars == <<api_key, openai_model, now, pc, req, loc, sent, lock, connection, opened, hLost, disk,
          work, inTx, faults, hLog, hUsage>>

NoRequest == [kind |-> "", prompt |-> ""]

\* stages: the stages of process_ai_request passed so far.  hPre, hPreLog,
\* hPreFaults: disk, hLog and faults when the store call took the lock;
\* hPreLost: hLost at that moment;
\* hPost: disk when the store call ended; hDeleted: the rows its DELETE
\* removed; hCalls: the upstream calls the coroutine's OpenAIService began.
NoLoc ==
    [prompt |-> "", script |-> <<>>, attempt |-> 0, request_count |-> 0,
     total_tokens_used |-> 0, response |-> NoReply, count |-> 0, id |-> 0,
     hCalls |-> 0, stages |-> <<>>, hPre |-> EmptyDb, hPreLog |-> <<>>, hPreFaults |-> 0,
     hPreLost |-> "",
     hPost |-> EmptyDb, hDeleted |-> 0]

NoSent == [p |-> NoProc, req |-> NoRequest, reply |-> NoReply, loc |-> NoLoc]

\* main.py lifespan: DatabaseService() and init_db() run before any request.
Init ==
    /\ api_key \in {"", "sk-test"}
    /\ openai_model \in Models
    /\ now = 0
    /\ pc = [p \in Procs |-> "idle"]
    /\ req = [p \in Procs |-> NoRequest]
    /\ loc = [p \in Procs |-> NoLoc]
    /\ sent = NoSent
    /\ lock = NoProc
    /\ connection = TRUE
    /\ opened = 1
    /\ hLost = ""
    /\ disk = EmptyDb
    /\ work = EmptyDb
    /\ inTx = FALSE
    /\ faults = 0
    /\ hLog = <<>>
    /\ hUsage = [requests |-> 0, tokens |-> 0]

\* The entries of hLog: a save that committed, with the id it returned, the
\* prompt of its request and the response and timestamp of its reply; a clear
\* that succeeded, with the count it returned.
SaveEntry(p) ==
    [op |-> "save", ret |-> loc[p].id, prompt |-> req[p].prompt,
     response |-> loc[p].response.response,
     timestamp |-> loc[p].response.timestamp]

ClearEntry(count) ==
    [op |-> "clear", ret |-> count, prompt |-> "", response |-> "", timestamp |-> 0]

\* hUsage after n more attempts whose responses reported t tokens; it
\* counts the first MaxCounted attempts.
Counted(n, t) ==
    IF hUsage.requests >= MaxCounted THEN hUsage
    ELSE [requests |-> hUsage.requests + n, tokens |-> hUsage.tokens + t]

\* The choices a store call has: to work, or (while faults remain) to raise.
FaultChoice == IF faults < MaxFaults THEN {FALSE, TRUE} ELSE {FALSE}

Inject(f) == faults' = IF f THEN faults + 1 ELSE faults

\* The coroutine of p goes on to the await named next.
Goto(p, next, l) ==
    /\ pc' = [pc EXCEPT ![p] = next]
    /\ loc' = [loc EXCEPT ![p] = l]
    /\ sent' = NoSent

\* The coroutine of p ends: the reply r is sent.
Respond(p, request, r, l) ==
    /\ pc' = [pc EXCEPT ![p] = "idle"]
    /\ req' = [req EXCEPT ![p] = NoRequest]
    /\ loc' = [loc EXCEPT ![p] = NoLoc]
    /\ sent' = [p |-> p, req |-> request, reply |-> r, loc |-> l]

\* datetime.now() moves on.
Tick ==
    /\ now < MaxClock
    /\ now' = now + 1
    /\ sent' = NoSent
    /\ UNCHANGED <<api_key, openai_model, hUsage, pc, req, loc, storeVars, faults>>

(***************************************************************************)
(* POST /api/ask-ai.                                                       *)
(***************************************************************************)
SavesInFlight == Cardinality({q \in Procs : req[q].kind = "ask"})

\* controllers/ai_controller.py lines 63-71: what process_ai_request raises
\* for an exception raised inside it.
ControllerRaise(e) ==
    IF e.type = "ValueError" \/ e.type = "RuntimeError" THEN e
    ELSE Exc("RuntimeError", "An unexpected error occurred: " \o e.msg)

AfterSave_Propagates(response, e) ==
    IF e = NoExc THEN response ELSE AskErrorReply(ControllerRaise(e))

\* controllers/ai_controller.py lines 49-61: the reply of ask_ai when
\* save_conversation raised e (NoExc: it returned): the exception is logged
\* and the response is returned.
AfterSave(response, e) == response

\* The prompts the model draws from, and what AskAIRequest makes of each.
Prompts == {"Hello", " Hi ", "", "   ", "a", " a ", "javascript:x"}

\* n copies of the character c.
RECURSIVE Repeat(_, _)
Repeat(c, n) ==
    IF n = 0 THEN ""
    ELSE IF n = 1 THEN c
    ELSE Repeat(c, n \div 2) \o Repeat(c, n - (n \div 2))

\* Prompts at the boundary of the repetition check: a run of RepeatMin + 1
\* letters, a run of RepeatMin letters, a run of RepeatMin + 1 newlines inside
\* the prompt, and a run of RepeatMin + 1 spaces before it.
LongPrompts ==
    {Repeat("a", RepeatMin + 1),
     Repeat("a", RepeatMin),
     "a" \o Repeat("\n", RepeatMin + 1) \o "b",
     Repeat(" ", RepeatMin + 1) \o "ab"}

Validated == [v \in Prompts \cup LongPrompts |-> validate_prompt(v)]

\* The request arrives.  FastAPI resolves the dependency get_ai_controller
\* (which builds an OpenAIService), validates the body as an AskAIRequest and
\* calls ask_ai, which runs process_ai_request up to its first await: the
\* upstream call of the first attempt of generate_response.
AskStart(p, prompt, scripts, maxRows) ==
    /\ pc[p] = "idle"
    /\ Len(disk.rows) + SavesInFlight < maxRows
    /\ LET v == Validated[prompt]
           request == [kind |-> "ask", prompt |-> prompt]
           l == [NoLoc EXCEPT !.prompt = v.value]
       IN
        IF OpenAIService_init(api_key) # NoExc THEN
            Respond(p, request, ConfigurationErrorReply, NoLoc)
        ELSE IF ~v.ok THEN
            Respond(p, request, validation_exception_handler(v.msg), NoLoc)
        ELSE IF strip(v.value) = "" THEN
            Respond(p, request,
                    AskErrorReply(ControllerRaise(
                        Exc("ValueError", "Prompt cannot be empty or contain only whitespace"))),
                    [l EXCEPT !.stages = <<"Received">>])
        ELSE IF v.value = "" \/ strip(v.value) = "" THEN
            Respond(p, request,
                    AskErrorReply(ControllerRaise(Exc("ValueError", "Prompt cannot be empty"))),
                    [l EXCEPT !.stages = <<"Received", "Validated", "AIInvoked">>])
        ELSE
            /\ req' = [req EXCEPT ![p] = request]
            /\ \E script \in scripts :
                Goto(p, "upstream",
                     [l EXCEPT !.script = script, !.attempt = 1, !.request_count = 1,
                               !.hCalls = 1,
                               !.stages = <<"Received", "Validated", "AIInvoked">>])
    /\ hUsage' = IF OpenAIService_init(api_key) = NoExc /\ Validated[prompt].ok /\ strip(Validated[prompt].value) # ""
                 THEN Counted(1, 0) ELSE hUsage
    /\ UNCHANGED <<api_key, openai_model, now, storeVars, faults>>

\* The upstream call of the current attempt ends.  The decorator either
\* waits and starts the next attempt, or lets the exception out, or the
\* text is returned; process_ai_request then builds the AskAIResponse and
\* calls save_conversation, which waits for the store's lock.
UpstreamReturn(p) ==
    /\ pc[p] = "upstream"
    /\ LET l == loc[p]
           r == generate_response(l.script[l.attempt], openai_model)
       IN
        IF ShouldRetry(r.raised, l.attempt) THEN
            /\ Goto(p, "upstream",
                    [l EXCEPT !.attempt = l.attempt + 1,
                              !.request_count = l.request_count + 1,
                              !.hCalls = l.hCalls + 1])
            /\ hUsage' = Counted(1, 0)
            /\ UNCHANGED req
        ELSE IF r.raised # NoExc THEN
            /\ Respond(p, req[p], AskErrorReply(ControllerRaise(r.raised)), l)
            /\ UNCHANGED hUsage
        ELSE
            /\ Goto(p, "lock",
                    [l EXCEPT !.total_tokens_used = l.total_tokens_used + r.tokens,
                              !.stages = Append(l.stages, "PersistAttempted"),
                              !.response =
                                  [NoReply EXCEPT !.status = 200,
                                                  !.prompt = l.prompt,
                                                  !.response = r.value,
                                                  !.timestamp = now,
                                                  !.model = ControllerModel]])
            /\ hUsage' = Counted(0, r.tokens)
            /\ UNCHANGED req
    /\ UNCHANGED <<api_key, openai_model, now, storeVars, faults>>

(***************************************************************************)
(* GET /api/conversations, DELETE /api/conversations, GET /api/health: up  *)
(* to the store call, which waits for the store's lock.                    *)
(***************************************************************************)
StoreStart(p, kind) ==
    /\ pc[p] = "idle"
    /\ req' = [req EXCEPT ![p] = [kind |-> kind, prompt |-> ""]]
    /\ Goto(p, "lock", NoLoc)
    /\ UNCHANGED <<api_key, openai_model, hUsage, now, storeVars, faults>>

\* routes/conversation_routes.py: get_conversations
ListStart(p) == StoreStart(p, "list")

\* routes/conversation_routes.py: clear_conversations
ClearStart(p) == StoreStart(p, "clear")

\* routes/ai_routes.py: health_check, the report it has built when it calls
\* get_conversation_count: the usage statistics of its OpenAIService l and
\* the api_validation v.
HealthReport(l, v) ==
    [NoReply EXCEPT !.status = 200,
                    !.message = "API is operational",
                    !.total_requests = l.request_count,
                    !.total_tokens_used = l.total_tokens_used,
                    !.api_validation = v]

\* routes/ai_routes.py: health_check builds an OpenAIService first; its
\* ValueError ends the check with 503.  With validate_api=true it awaits
\* validate_api_key, whose probe is an upstream call; else it reads the
\* usage statistics and calls get_conversation_count.
HealthStart(p, scripts) ==
    IF OpenAIService_init(api_key) # NoExc THEN
        /\ pc[p] = "idle"
        /\ Respond(p, [kind |-> "health", prompt |-> ""],
                   [NoReply EXCEPT !.status = 503,
                                   !.error = "Service Unavailable",
                                   !.message = "API health check failed"],
                   NoLoc)
        /\ UNCHANGED <<api_key, openai_model, hUsage, now, storeVars, faults>>
    ELSE
        /\ pc[p] = "idle"
        /\ req' = [req EXCEPT ![p] = [kind |-> "health", prompt |-> ""]]
        /\ \E validate_api \in BOOLEAN :
            IF validate_api THEN
                \E script \in {<<sc[1]>> : sc \in scripts} :
                    Goto(p, "probe", [NoLoc EXCEPT !.script = script, !.hCalls = 1])
            ELSE Goto(p, "lock", [NoLoc EXCEPT !.response = HealthReport(NoLoc, NoValidation)])
        /\ UNCHANGED <<api_key, openai_model, hUsage, now, storeVars, faults>>

\* The probe call of validate_api_key ends; health_check reads the usage
\* statistics and calls get_conversation_count.
ProbeReturn(p) ==
    /\ pc[p] = "probe"
    /\ LET l == loc[p]
           v == validate_api_key(l.script[1], openai_model)
       IN  Goto(p, "lock",
                [l EXCEPT !.response =
                    HealthReport(l, IF v.raised # NoExc
                                    THEN [NoValidation EXCEPT !.message = "API validation failed"]
                                    ELSE v.value)])
    /\ UNCHANGED <<api_key, openai_model, hUsage, now, req, storeVars, faults>>

(***************************************************************************)
(* The replies that end a request once its store call has ended.           *)
(***************************************************************************)
DatabaseErrorReply(msg) ==
    [NoReply EXCEPT !.status = 500, !.error = "Database Error", !.message = msg]

FailureReply_Swallowed(kind, response, e) ==
    IF kind = "ask" THEN AfterSave(response, e)
    ELSE [response EXCEPT !.status = 200]

\* The store call raised e.
FailureReply(kind, response, e) ==
    CASE kind = "ask" -> AfterSave(response, e)
      [] kind = "list" ->
            DatabaseErrorReply("Failed to retrieve conversations: " \o e.msg)
      [] kind = "clear" ->
            DatabaseErrorReply("Failed to clear conversations: " \o e.msg)
      [] OTHER -> [response EXCEPT !.health = "degraded"]

\* The RuntimeError each store method makes of an error text.
StoreError(kind, text) ==
    Exc("RuntimeError",
        CASE kind = "ask" -> "Failed to save conversation: " \o text
          [] kind = "list" -> "Failed to retrieve conversations: " \o text
          [] kind = "clear" -> "Failed to clear conversations: " \o text
          [] OTHER -> "Failed to get conversation count: " \o text)

FirstStep(kind) ==
    CASE kind = "ask" -> "insert"
      [] kind = "list" -> "select"
      [] kind = "clear" -> "count_rows"
      [] OTHER -> "count"

\* The locals of p as its store call ends with the committed database db.
Ended(p, db) ==
    [loc[p] EXCEPT !.hPost = db,
                   !.stages = IF req[p].kind = "ask" THEN Append(@, "Completed") ELSE @]

(***************************************************************************)
(* services/database_service.py: get_connection and init_db.               *)
(***************************************************************************)
Acquire_NoLock(p) ==
    /\ pc[p] = "lock"
    /\ lock' = p
    /\ Goto(p, IF connection THEN FirstStep(req[p].kind) ELSE "init",
            [loc[p] EXCEPT !.hPre = disk, !.hPreLog = hLog, !.hPreFaults = faults,
                           !.hPreLost = hLost])
    /\ UNCHANGED <<api_key, openai_model, hUsage, now, req, connection, opened, hLost, disk, work, inTx, hLog, faults>>

\* async with self._connection_lock
Acquire(p) ==
    /\ pc[p] = "lock"
    /\ lock = NoProc
    /\ lock' = p
    /\ Goto(p, IF connection THEN FirstStep(req[p].kind) ELSE "init",
            [loc[p] EXCEPT !.hPre = disk, !.hPreLog = hLog, !.hPreFaults = faults,
                           !.hPreLost = hLost])
    /\ UNCHANGED <<api_key, openai_model, hUsage, now, req, connection, opened, hLost, disk, work, inTx, hLog, faults>>

\* init_db failing without the lock being released.
InitDb_KeepsLock(p) ==
    /\ pc[p] = "init"
    /\ \E f \in FaultChoice :
        /\ Inject(f)
        /\ IF f THEN
                /\ connection' = FALSE
                /\ opened' = IF connection THEN opened - 1 ELSE opened
                /\ hLost' = "failed"
                /\ UNCHANGED lock
                /\ Respond(p, req[p],
                           FailureReply(req[p].kind, loc[p].response,
                               Exc("RuntimeError",
                                   "Database initialization failed: " \o FaultText)),
                           Ended(p, disk))
                /\ UNCHANGED <<work, inTx>>
           ELSE
                /\ connection' = TRUE
                /\ opened' = opened + 1
                /\ hLost' = ""
                /\ work' = disk
                /\ inTx' = FALSE
                /\ Goto(p, FirstStep(req[p].kind), loc[p])
                /\ UNCHANGED <<lock, req>>
    /\ UNCHANGED <<api_key, openai_model, hUsage, now, disk, hLog>>

\* if not self.connection: await self.init_db().  Its failure is raised
\* before the try of get_connection; the lock is released on the way out.
InitDb(p) ==
    /\ pc[p] = "init"
    /\ \E f \in FaultChoice :
        /\ Inject(f)
        /\ IF f THEN
                /\ connection' = FALSE
                /\ opened' = IF connection THEN opened - 1 ELSE opened
                /\ hLost' = "failed"
                /\ lock' = NoProc
                /\ Respond(p, req[p],
                           FailureReply(req[p].kind, loc[p].response,
                               Exc("RuntimeError",
                                   "Database initialization failed: " \o FaultText)),
                           Ended(p, disk))
                /\ UNCHANGED <<work, inTx>>
           ELSE
                /\ connection' = TRUE
                /\ opened' = opened + 1
                /\ hLost' = ""
                /\ work' = disk
                /\ inTx' = FALSE
                /\ Goto(p, FirstStep(req[p].kind), loc[p])
                /\ UNCHANGED <<lock, req>>
    /\ UNCHANGED <<api_key, openai_model, hUsage, now, disk, hLog>>

\* A store call raises when a fault is injected, or when the connection it
\* was given has been closed since.
Fails(f) == f \/ ~connection

\* get_connection leaving the connection in place when the body raises.
Abort_KeepsConnection(p, e) ==
    /\ UNCHANGED <<connection, opened, hLost>>
    /\ work' = disk
    /\ inTx' = FALSE
    /\ lock' = NoProc
    /\ Respond(p, req[p], FailureReply(req[p].kind, loc[p].response, e), Ended(p, disk))
    /\ UNCHANGED <<disk, hLog>>

\* An exception leaves the body of `async with self.get_connection()`: the
\* connection is closed, which discards its open transaction, and the lock
\* is released.  (clear_all_conversations has rolled back before, when the
\* exception came from its transaction.)
Abort(p, e) ==
    /\ connection' = FALSE
    /\ opened' = IF connection THEN opened - 1 ELSE opened
    /\ hLost' = "failed"
    /\ work' = disk
    /\ inTx' = FALSE
    /\ lock' = NoProc
    /\ Respond(p, req[p], FailureReply(req[p].kind, loc[p].response, e), Ended(p, disk))
    /\ UNCHANGED <<disk, hLog>>

\* DatabaseService.close: under the lock, the connection is closed when there
\* is one, which discards nothing, no store call being in progress.
Close ==
    /\ lock = NoProc
    /\ connection' = FALSE
    /\ opened' = IF connection THEN opened - 1 ELSE opened
    /\ hLost' = IF connection THEN "closed" ELSE hLost
    /\ work' = disk
    /\ inTx' = FALSE
    /\ sent' = NoSent
    /\ UNCHANGED <<api_key, openai_model, hUsage, now, pc, req, loc, lock, disk, hLog, faults>>

\* The store call of p returns: the lock is released and the reply r sent.
Return(p, r, db) ==
    /\ lock' = NoProc
    /\ Respond(p, req[p], r, Ended(p, db))

\* The store call of p goes on to its next statement.
Continue(p, next, l) ==
    /\ Goto(p, next, l)
    /\ UNCHANGED <<req, lock>>

(***************************************************************************)
(* services/database_service.py: save_conversation.                        *)
(***************************************************************************)
\* conn.execute("INSERT ..."): sqlite3 opens a transaction before the
\* INSERT; the timestamp stored is read from the clock here.
SaveInsert(p) ==
    /\ pc[p] = "insert"
    /\ \E f \in FaultChoice :
        /\ Inject(f)
        /\ IF Fails(f) THEN Abort(p, StoreError("ask", FaultText))
           ELSE
                /\ work' = InsertRow(work, loc[p].prompt, loc[p].response.response,
                                     now, ControllerModel)
                /\ inTx' = TRUE
                /\ Continue(p, "commit", [loc[p] EXCEPT !.id = NextRowId(work)])
                /\ UNCHANGED <<connection, opened, hLost, disk, hLog>>
    /\ UNCHANGED <<api_key, openai_model, hUsage, now>>

SaveCommit_NoCommit(p) ==
    /\ pc[p] = "commit"
    /\ \E f \in FaultChoice :
        /\ Inject(f)
        /\ IF Fails(f) THEN Abort(p, StoreError("ask", FaultText))
           ELSE
                /\ hLog' = Append(hLog, SaveEntry(p))
                /\ Return(p, AfterSave(loc[p].response, NoExc), disk)
                /\ UNCHANGED <<connection, opened, hLost, work, disk, inTx>>
    /\ UNCHANGED <<api_key, openai_model, hUsage, now>>

\* conn.commit(), return cursor.lastrowid; process_ai_request returns the
\* response.
SaveCommit(p) ==
    /\ pc[p] = "commit"
    /\ \E f \in FaultChoice :
        /\ Inject(f)
        /\ IF Fails(f) THEN Abort(p, StoreError("ask", FaultText))
           ELSE
                /\ disk' = work
                /\ inTx' = FALSE
                /\ hLog' = Append(hLog, SaveEntry(p))
                /\ Return(p, AfterSave(loc[p].response, NoExc), work)
                /\ UNCHANGED <<connection, opened, hLost, work>>
    /\ UNCHANGED <<api_key, openai_model, hUsage, now>>

(***************************************************************************)
(* services/database_service.py: get_all_conversations and                 *)
(* get_conversation_count, with the replies of their routes.               *)
(***************************************************************************)
Select(p) ==
    /\ pc[p] = "select"
    /\ \E f \in FaultChoice :
        /\ Inject(f)
        /\ IF Fails(f) THEN Abort(p, StoreError("list", FaultText))
           ELSE
                /\ \E conversations \in Selections(work) :
                        Return(p, [NoReply EXCEPT !.status = 200,
                                                  !.conversations = conversations,
                                                  !.total_count = Len(conversations)],
                               disk)
                /\ UNCHANGED <<connection, opened, hLost, disk, work, inTx, hLog>>
    /\ UNCHANGED <<api_key, openai_model, hUsage, now>>

Count(p) ==
    /\ pc[p] = "count"
    /\ \E f \in FaultChoice :
        /\ Inject(f)
        /\ IF Fails(f) THEN Abort(p, StoreError("health", FaultText))
           ELSE
                /\ Return(p, [loc[p].response EXCEPT !.health = "healthy",
                                                     !.total_count = Len(work.rows)],
                          disk)
                /\ UNCHANGED <<connection, opened, hLost, disk, work, inTx, hLog>>
    /\ UNCHANGED <<api_key, openai_model, hUsage, now>>

(***************************************************************************)
(* services/database_service.py: clear_all_conversations, with the reply   *)
(* of its route.                                                           *)
(***************************************************************************)
ClearedReply(count) ==
    [NoReply EXCEPT !.status = 200,
                    !.message = "Successfully deleted conversations",
                    !.deleted_count = count]

ClearCount_EmptyIsError(p) ==
    /\ pc[p] = "count_rows"
    /\ \E f \in FaultChoice :
        /\ Inject(f)
        /\ IF Fails(f) \/ Len(work.rows) = 0 THEN Abort(p, StoreError("clear", FaultText))
           ELSE
                /\ Continue(p, "begin", [loc[p] EXCEPT !.count = Len(work.rows)])
                /\ UNCHANGED <<connection, opened, hLost, disk, work, inTx, hLog>>
    /\ UNCHANGED <<api_key, openai_model, hUsage, now>>

\* SELECT COUNT(*); with no row the method returns 0 at once.
ClearCount(p) ==
    /\ pc[p] = "count_rows"
    /\ \E f \in FaultChoice :
        /\ Inject(f)
        /\ IF Fails(f) THEN Abort(p, StoreError("clear", FaultText))
           ELSE IF Len(work.rows) > 0 THEN
                /\ Continue(p, "begin", [loc[p] EXCEPT !.count = Len(work.rows)])
                /\ UNCHANGED <<connection, opened, hLost, disk, work, inTx, hLog>>
           ELSE
                /\ hLog' = <<ClearEntry(0)>>
                /\ Return(p, ClearedReply(0), disk)
                /\ UNCHANGED <<connection, opened, hLost, disk, work, inTx>>
    /\ UNCHANGED <<api_key, openai_model, hUsage, now>>

\* BEGIN TRANSACTION
ClearBegin(p) ==
    /\ pc[p] = "begin"
    /\ \E f \in FaultChoice :
        /\ Inject(f)
        /\ IF Fails(f) THEN Abort(p, StoreError("clear", FaultText))
           ELSE
                /\ inTx' = TRUE
                /\ Continue(p, "delete", loc[p])
                /\ UNCHANGED <<connection, opened, hLost, disk, work, hLog>>
    /\ UNCHANGED <<api_key, openai_model, hUsage, now>>

\* The exception of a statement of the transaction: rolled back, wrapped,
\* and wrapped again by the outer handler.
ClearError == StoreError("clear", StoreError("clear", FaultText).msg)

ClearDelete_Autocommit(p) ==
    /\ pc[p] = "delete"
    /\ \E f \in FaultChoice :
        /\ Inject(f)
        /\ IF Fails(f) THEN Abort(p, ClearError)
           ELSE
                /\ work' = DeleteRows(work)
                /\ disk' = DeleteRows(work)
                /\ Continue(p, "reset", [loc[p] EXCEPT !.hDeleted = Len(work.rows)])
                /\ UNCHANGED <<connection, opened, hLost, inTx, hLog>>
    /\ UNCHANGED <<api_key, openai_model, hUsage, now>>

\* DELETE FROM conversations
ClearDelete(p) ==
    /\ pc[p] = "delete"
    /\ \E f \in FaultChoice :
        /\ Inject(f)
        /\ IF Fails(f) THEN Abort(p, ClearError)
           ELSE
                /\ work' = DeleteRows(work)
                /\ Continue(p, "reset", [loc[p] EXCEPT !.hDeleted = Len(work.rows)])
                /\ UNCHANGED <<connection, opened, hLost, disk, inTx, hLog>>
    /\ UNCHANGED <<api_key, openai_model, hUsage, now>>

ClearReset_Skipped(p) ==
    /\ pc[p] = "reset"
    /\ \E f \in FaultChoice :
        /\ Inject(f)
        /\ IF Fails(f) THEN Abort(p, ClearError)
           ELSE
                /\ Continue(p, "clear_commit", loc[p])
                /\ UNCHANGED <<connection, opened, hLost, disk, work, inTx, hLog>>
    /\ UNCHANGED <<api_key, openai_model, hUsage, now>>

\* DELETE FROM sqlite_sequence WHERE name='conversations'
ClearReset(p) ==
    /\ pc[p] = "reset"
    /\ \E f \in FaultChoice :
        /\ Inject(f)
        /\ IF Fails(f) THEN Abort(p, ClearError)
           ELSE
                /\ work' = ResetSequence(work)
                /\ Continue(p, "clear_commit", loc[p])
                /\ UNCHANGED <<connection, opened, hLost, disk, inTx, hLog>>
    /\ UNCHANGED <<api_key, openai_model, hUsage, now>>

\* conn.commit(), return count
ClearCommit(p) ==
    /\ pc[p] = "clear_commit"
    /\ \E f \in FaultChoice :
        /\ Inject(f)
        /\ IF Fails(f) THEN Abort(p, ClearError)
           ELSE
                /\ disk' = work
                /\ inTx' = FALSE
                /\ hLog' = <<ClearEntry(loc[p].count)>>
                /\ Return(p, ClearedReply(loc[p].count), work)
                /\ UNCHANGED <<connection, opened, hLost, work>>
    /\ UNCHANGED <<api_key, openai_model, hUsage, now>>

(***************************************************************************)
(* The upstream outcomes and the requests the model draws from.            *)
(***************************************************************************)
Completion == Returns("ok", "Hi there", 7)

Timeout == Raises("APITimeoutError", "Request timed out.")

Outcomes ==
    {Completion,
     Timeout,
     Raises("APIConnectionError", "Connection error."),
     Returns("ok", "Hi there", 0),
     Returns("none", "", 0),
     Returns("no_choices", "", 0),
     Returns("no_message", "", 0),
     Returns("ok", "", 0),
     Raises("AuthenticationError", "Incorrect API key provided"),
     Raises("RateLimitError", "Rate limit reached for requests"),
     Raises("RateLimitError", "You exceeded your current quota"),
     Raises("APIStatusError", "The model gpt-x was not found"),
     Raises("APIStatusError", "content_filter"),
     Raises("APIStatusError", "context_length exceeded"),
     Raises("APIStatusError", "The server had an error"),
     Raises("APIStatusError", "Invalid value for max_tokens"),
     Raises("APIStatusError", "Gateway timeout"),
     Raises("asyncio.TimeoutError", ""),
     Raises("KeyError", "'usage'")}

\* What the upstream does on the calls of one request: any outcome on the
\* first call, then a timeout or a completion, then a completion.
Scripts == {<<a, b, Completion>> : a \in Outcomes, b \in {Timeout, Completion}}

\* The upstream of the store specifications: it completes.
FewScripts == {<<Completion, Completion, Completion>>}

Step(p, prompts, scripts, maxRows) ==
    \/ \E prompt \in prompts : AskStart(p, prompt, scripts, maxRows)
    \/ UpstreamReturn(p)
    \/ ListStart(p)
    \/ ClearStart(p)
    \/ HealthStart(p, scripts)
    \/ ProbeReturn(p)
    \/ Acquire(p)
    \/ InitDb(p)
    \/ SaveInsert(p)
    \/ SaveCommit(p)
    \/ Select(p)
    \/ Count(p)
    \/ ClearCount(p)
    \/ ClearBegin(p)
    \/ ClearDelete(p)
    \/ ClearReset(p)
    \/ ClearCommit(p)

\* The request pipeline: one request at a time, every prompt and every
\* upstream script, a store of at most MaxRowsAsk rows.
Next == Step(1, Prompts, Scripts, MaxRowsAsk)

Spec == Init /\ [][Next]_vars

\* The request pipeline on the prompts at the boundary of the repetition
\* check, the upstream completing.
NextValidate == Step(1, LongPrompts, FewScripts, MaxRowsAsk)

SpecValidate == Init /\ [][NextValidate]_vars

\* The store: one request at a time, up to MaxRows rows, the clock moving.
NextStore == Tick \/ Close \/ Step(1, {"Hello"}, FewScripts, MaxRows)

SpecStore == Init /\ [][NextStore]_vars

\* The store under NumProcs concurrent requests.
NextConc == Close \/ \E p \in Procs : Step(p, {"Hello"}, FewScripts, MaxRowsConc)

SpecConc == Init /\ [][NextConc]_vars

\* The store under NumProcs concurrent requests, scheduled as asyncio
\* schedules them: a coroutine that is ready to run is run in the end, so each
\* statement of a store call that holds the lock is executed; and the waiters
\* of an asyncio.Lock are woken in the order they came, so a coroutine that
\* waits for the lock gets it although the lock is taken again and again.
Fairness ==
    \A p \in Procs :
        /\ SF_vars(Acquire(p))
        /\ WF_vars(InitDb(p))
        /\ WF_vars(SaveInsert(p))
        /\ WF_vars(SaveCommit(p))
        /\ WF_vars(Select(p))
        /\ WF_vars(Count(p))
        /\ WF_vars(ClearCount(p))
        /\ WF_vars(ClearBegin(p))
        /\ WF_vars(ClearDelete(p))
        /\ WF_vars(ClearReset(p))
        /\ WF_vars(ClearCommit(p))

SpecLive == Init /\ [][NextConc]_vars /\ Fairness

(***************************************************************************)
(* Properties.  They are stated on sent, the reply the last step sent, so  *)
(* they hold of every reply of every behaviour.                            *)
(***************************************************************************)
Transient(o) == o.exc \in {"APITimeoutError", "APIConnectionError"}

\* The upstream returned a completion generate_response accepts.
Completes(o) == generate_response(o, openai_model).raised = NoExc

FullStages == <<"Received", "Validated", "AIInvoked", "PersistAttempted", "Completed">>

IsPrefix(s, t) == Len(s) <= Len(t) /\ SubSeq(t, 1, Len(s)) = s

Passed(l, stage) == \E i \in 1..Len(l.stages) : l.stages[i] = stage

\* The store call of the reply in sent had a fault injected.
StoreFaulted == faults > sent.loc.hPreFaults

\* The reply in sent ends a POST /api/ask-ai whose save committed.
Saved == sent.req.kind = "ask" /\ Passed(sent.loc, "Completed") /\ ~StoreFaulted

\* C1: when the upstream fails with a timeout or a connection failure on the
\* first and second calls and completes on the third, generate_response
\* returns the completion's text after exactly 3 upstream calls.
C1_RetriesTransientFailures ==
    (/\ sent.req.kind = "ask"
     /\ Len(sent.loc.script) = MaxAttempts
     /\ Transient(sent.loc.script[1])
     /\ Transient(sent.loc.script[2])
     /\ Completes(sent.loc.script[3]))
    => /\ sent.reply.status = 200
       /\ sent.reply.response = strip(sent.loc.script[3].content)
       /\ sent.loc.request_count = 3

C4_DomainRejectionIs400 ==
    (/\ sent.req.kind = "ask"
     /\ api_key # ""
     /\ Len(sent.req.prompt) \in MinLength..MaxLength
     /\ ~Validated[sent.req.prompt].ok)
    => /\ sent.reply.status = 400
       /\ sent.reply.error_code =
            (IF strip(sent.req.prompt) = "" THEN "EMPTY_PROMPT"
             ELSE IF Len(strip(sent.req.prompt)) < MinMeaningful THEN "INSUFFICIENT_CONTENT"
             ELSE IF harmful_patterns(sent.req.prompt) THEN "HARMFUL_CONTENT"
             ELSE "EXCESSIVE_REPETITION")
       /\ sent.reply.suggestions # <<>>
       /\ sent.loc.request_count = 0

\* The awaits of a store call, from the lock taken to the lock released.
StorePcs ==
    {"init", "insert", "commit", "select", "count", "count_rows", "begin",
     "delete", "reset", "clear_commit"}

InStore(p) == pc[p] \in StorePcs

SaveEntries(log) == {i \in 1..Len(log) : log[i].op = "save"}

\* The reply in sent ends a DELETE /api/conversations that succeeded.
Cleared == sent.req.kind = "clear" /\ sent.reply.status = 200

\* C5: the steps of concurrent store calls never interleave: while a call is
\* between its first and its last statement no other call is, and nothing is
\* committed by another call; so the count clear_all_conversations returns is
\* the number of rows its DELETE removed.
C5_StoreCallsSerialized ==
    /\ \A p, q \in Procs : InStore(p) /\ InStore(q) => p = q
    /\ \A p \in Procs :
        InStore(p) => /\ lock = p
                      /\ disk = loc[p].hPre
                      /\ hLog = loc[p].hPreLog
    /\ Cleared => sent.reply.deleted_count = sent.loc.hDeleted

\* A clear is between its count and its commit while a save waits.
C5_Witness ==
    \E p, q \in Procs :
        /\ pc[p] \in {"delete", "reset", "clear_commit"}
        /\ loc[p].count > 0
        /\ pc[q] = "lock"
        /\ req[q].kind = "ask"

\* C6: the saves completed since the last clear returned ids that differ
\* from one another, and each save returns an id greater than the id of
\* every row stored when it began.
C6_SaveIdsUnique ==
    /\ \A i, j \in SaveEntries(hLog) : i # j => hLog[i].ret # hLog[j].ret
    /\ Saved => /\ \A id \in Ids(sent.loc.hPre) : sent.loc.id > id
                /\ \A i \in SaveEntries(sent.loc.hPreLog) :
                        sent.loc.id > sent.loc.hPreLog[i].ret

\* A save completes after another save and a rolled-back one.
C6_Witness ==
    /\ Saved
    /\ sent.loc.hPreFaults > 0
    /\ SaveEntries(sent.loc.hPreLog) # {}
    /\ sent.loc.id = 2

\* C7: when clear_all_conversations fails, the store holds afterwards the
\* rows and the id sequence it held before.
C7_ClearAllOrNothing ==
    (sent.req.kind = "clear" /\ sent.reply.status # 200)
    => /\ disk = sent.loc.hPre
       /\ sent.loc.hPost = sent.loc.hPre
       /\ work = disk
       /\ ~inTx
       /\ hLog = sent.loc.hPreLog

\* The clear failed after its DELETE removed rows.
C7_Witness ==
    /\ sent.req.kind = "clear"
    /\ sent.reply.status = 500
    /\ sent.loc.hDeleted > 0
    /\ Len(disk.rows) = sent.loc.hDeleted

\* C8: the first save to succeed after a clear that succeeded returns id 1.
C8_IdRestartsAfterClear ==
    (/\ Saved
     /\ sent.loc.hPreLog # <<>>
     /\ sent.loc.hPreLog[Len(sent.loc.hPreLog)].op = "clear")
    => /\ sent.loc.id = 1
       /\ Ids(sent.loc.hPost) = {1}

\* A save follows a clear that removed more than one row.
C8_Witness ==
    /\ Saved
    /\ sent.loc.hPreLog # <<>>
    /\ sent.loc.hPreLog[1].op = "clear"
    /\ sent.loc.hPreLog[1].ret > 1
    /\ sent.loc.id = 1

\* C9: DELETE /api/conversations on a store of n rows reports deleted_count
\* n and leaves no row; a GET /api/conversations that follows, with no save
\* in between, reports total_count 0.
C9_ClearReturnsCount ==
    /\ Cleared => /\ sent.reply.deleted_count = Len(sent.loc.hPre.rows)
                  /\ sent.loc.hPost.rows = <<>>
                  /\ disk.rows = <<>>
    /\ (/\ sent.req.kind = "list"
        /\ sent.reply.status = 200
        /\ Len(sent.loc.hPreLog) = 1
        /\ sent.loc.hPreLog[1].op = "clear")
       => /\ sent.reply.total_count = 0
          /\ sent.reply.conversations = <<>>

\* The GET that follows a DELETE of 3 rows.
C9_Witness ==
    /\ sent.req.kind = "list"
    /\ sent.reply.status = 200
    /\ sent.loc.hPreLog = <<ClearEntry(3)>>
    /\ sent.reply.total_count = 0

\* C10: clear_all_conversations on a store with no row returns 0, raises
\* nothing and changes nothing; a clear that follows a clear finds no row.
C10_ClearEmptyIsNoop ==
    (sent.req.kind = "clear" /\ ~StoreFaulted) =>
        /\ sent.loc.hPre.rows = <<>> =>
                /\ sent.reply.status = 200
                /\ sent.reply.deleted_count = 0
                /\ disk = sent.loc.hPre
                /\ sent.loc.hPost = sent.loc.hPre
        /\ (Len(sent.loc.hPreLog) = 1 /\ sent.loc.hPreLog[1].op = "clear") =>
                /\ sent.loc.hPre.rows = <<>>
                /\ hLog = <<ClearEntry(0)>>

\* A clear follows a clear that removed rows.
C10_Witness ==
    /\ Cleared
    /\ Len(sent.loc.hPreLog) = 1
    /\ sent.loc.hPreLog[1].op = "clear"
    /\ sent.loc.hPreLog[1].ret > 0
    /\ sent.reply.deleted_count = 0

\* The reply in sent ends a GET /api/conversations that succeeded.
Listed == sent.req.kind = "list" /\ sent.reply.status = 200

Last(log) == log[Len(log)]

\* The listing in sent follows a save, with no clear in between.
ListedAfterSave == Listed /\ sent.loc.hPreLog # <<>> /\ Last(sent.loc.hPreLog).op = "save"

\* C11: a POST /api/ask-ai whose AI call returned r and whose save committed
\* is answered 200 with response r and adds one row; the GET
\* /api/conversations that follows holds a record with the trimmed prompt
\* and r, and its total_count has grown by exactly 1.
C11_AskThenList ==
    /\ Saved =>
        /\ sent.reply.status = 200
        /\ sent.reply.response =
                generate_response(sent.loc.script[sent.loc.attempt], openai_model).value
        /\ Len(sent.loc.hPost.rows) = Len(sent.loc.hPre.rows) + 1
    /\ ListedAfterSave =>
        LET e == Last(sent.loc.hPreLog) IN
        /\ \E i \in 1..Len(sent.reply.conversations) :
                /\ sent.reply.conversations[i].id = e.ret
                /\ sent.reply.conversations[i].prompt = strip(e.prompt)
                /\ sent.reply.conversations[i].response = e.response
        /\ sent.reply.total_count = Cardinality(SaveEntries(sent.loc.hPreLog))
        /\ sent.reply.total_count = Len(sent.reply.conversations)

\* The GET that follows the first POST, whose prompt had spaces around it.
C11_Witness ==
    /\ ListedAfterSave
    /\ Len(sent.loc.hPreLog) = 1
    /\ sent.loc.hPreLog[1].prompt = " Hi "
    /\ sent.reply.total_count = 1
    /\ sent.reply.conversations[1].prompt = "Hi"
    /\ sent.reply.conversations[1].response = "Hi there"

\* C12: the record a listing returns for a saved exchange equals it in
\* prompt, response and model, has the id the save returned, and carries the
\* timestamp of the AskAIResponse that was returned for the exchange.
C12_TimestampPreserved ==
    ListedAfterSave =>
        LET e == Last(sent.loc.hPreLog) IN
        \E i \in 1..Len(sent.reply.conversations) :
            /\ sent.reply.conversations[i].id = e.ret
            /\ sent.reply.conversations[i].prompt = strip(e.prompt)
            /\ sent.reply.conversations[i].response = e.response
            /\ sent.reply.conversations[i].model = ControllerModel
            /\ sent.reply.conversations[i].timestamp = e.timestamp

\* out holds every row of db exactly once.
IsPermutation(out, db) ==
    /\ Len(out) = Len(db.rows)
    /\ \A i \in 1..Len(db.rows) :
            Cardinality({j \in 1..Len(out) : out[j] = db.rows[i]}) = 1

\* C13 (amended): get_all_conversations returns every stored record exactly
\* once, ordered by stored timestamp descending, and leaves the store as it
\* was; records of equal timestamp come in no particular order.
C13_ListOrderedByTimestamp ==
    Listed =>
        LET out == sent.reply.conversations IN
        /\ IsPermutation(out, sent.loc.hPre)
        /\ \A i, j \in 1..Len(out) : i < j => out[i].timestamp >= out[j].timestamp
        /\ sent.reply.total_count = Len(sent.loc.hPre.rows)
        /\ disk = sent.loc.hPre

\* A listing of three records saved at different times.
C13_Witness ==
    /\ Listed
    /\ Len(sent.reply.conversations) = 3
    /\ sent.reply.conversations[1].timestamp > sent.reply.conversations[3].timestamp
    /\ sent.reply.conversations[1].id > sent.reply.conversations[3].id

\* C13 as stated: get_all_conversations returns every stored record exactly
\* once, ordered by timestamp descending, the most recently saved record
\* first.
C13_MostRecentlySavedFirst ==
    Listed =>
        LET out == sent.reply.conversations IN
        /\ IsPermutation(out, sent.loc.hPre)
        /\ \A i, j \in 1..Len(out) : i < j => out[i].timestamp >= out[j].timestamp
        /\ \A i \in 1..Len(out) : out[1].id >= out[i].id

\* The upstream fails in a way that is not transient: a status error
\* (authentication, rate limit, quota, content policy) or a malformed
\* response.
NonTransient(o) ==
    \/ IsInstance(o.exc, "APIStatusError")
    \/ o.exc = "" /\ ResponseShapeError(o) # NoExc

\* C14: when the first upstream call fails with a non-transient error,
\* generate_response fails after exactly 1 upstream call.
C14_NonTransientNotRetried ==
    (/\ sent.req.kind = "ask"
     /\ sent.loc.script # <<>>
     /\ NonTransient(sent.loc.script[1]))
    => /\ sent.loc.request_count = 1
       /\ sent.loc.attempt = 1
       /\ sent.reply.status \notin {0, 200}
       /\ ~Passed(sent.loc, "PersistAttempted")

\* An authentication failure on the first call; a second call would have
\* completed.
C14_Witness ==
    /\ sent.req.kind = "ask"
    /\ sent.loc.script # <<>>
    /\ sent.loc.script[1].exc = "AuthenticationError"
    /\ sent.loc.script[2] = Completion
    /\ sent.loc.request_count = 1
    /\ sent.reply.status = 401

\* The reply in sent ends a POST /api/ask-ai whose AI call was made and
\* failed; Failure is the outcome of its last upstream call.
AIFailed ==
    /\ sent.req.kind = "ask"
    /\ sent.loc.script # <<>>
    /\ ~Completes(sent.loc.script[sent.loc.attempt])

Failure == sent.loc.script[sent.loc.attempt]

IsAuthFailure(o) == IsInstance(o.exc, "AuthenticationError")

IsQuotaFailure(o) == IsInstance(o.exc, "RateLimitError") /\ Contains(lower(o.text), "quota")

IsRateLimited(o) == IsInstance(o.exc, "RateLimitError") /\ ~IsQuotaFailure(o)

IsTimeout(o) == IsInstance(o.exc, "APITimeoutError") \/ o.exc = "asyncio.TimeoutError"

\* C15: an upstream rate-limit error that is not a quota error is answered
\* 429 with error_code RATE_LIMIT_EXCEEDED.
C15_RateLimitIs429 ==
    (AIFailed /\ IsRateLimited(Failure))
    => /\ sent.reply.status = 429
       /\ sent.reply.error_code = "RATE_LIMIT_EXCEEDED"

\* C16: an upstream timeout is answered 504 with error_code REQUEST_TIMEOUT.
C16_TimeoutIs504 ==
    (AIFailed /\ IsTimeout(Failure))
    => /\ sent.reply.status = 504
       /\ sent.reply.error_code = "REQUEST_TIMEOUT"

\* C17: an upstream authentication failure is answered 401 with error_code
\* INVALID_API_KEY, and no other upstream failure is.
C17_AuthFailureIs401 ==
    AIFailed =>
        /\ IsAuthFailure(Failure) =>
                /\ sent.reply.status = 401
                /\ sent.reply.error_code = "INVALID_API_KEY"
        /\ (sent.reply.status = 401 \/ sent.reply.error_code = "INVALID_API_KEY")
                => IsAuthFailure(Failure)

\* C18: an upstream failure that is an OpenAI error other than an
\* authentication, rate-limit, quota or timeout failure, or a malformed
\* response, is answered 503 with error_code AI_SERVICE_ERROR, whatever its
\* text.
C18_OtherFailureIs503 ==
    (/\ AIFailed
     /\ \/ Failure.exc = ""
        \/ /\ IsInstance(Failure.exc, "OpenAIError")
           /\ ~IsAuthFailure(Failure)
           /\ ~IsInstance(Failure.exc, "RateLimitError")
           /\ ~IsTimeout(Failure))
    => /\ sent.reply.status = 503
       /\ sent.reply.error_code = "AI_SERVICE_ERROR"

\* C19: an exception that is neither an OpenAI error nor a timeout, raised
\* while the request is processed, is answered 500 with error_code
\* UNEXPECTED_ERROR and the fixed message; its text is not in the reply.
C19_UnexpectedIs500 ==
    (/\ AIFailed
     /\ Failure.exc # ""
     /\ ~IsInstance(Failure.exc, "OpenAIError")
     /\ ~IsTimeout(Failure))
    => /\ sent.reply.status = 500
       /\ sent.reply.error_code = "UNEXPECTED_ERROR"
       /\ sent.reply.message = UnexpectedErrorReply.message
       /\ ~Contains(sent.reply.message, Failure.text)

\* C20: GET /api/health is answered 200, with status "healthy" when the API
\* key is configured and the store call worked, and "degraded" otherwise.
C20_HealthDegraded ==
    sent.req.kind = "health" =>
        /\ sent.reply.status = 200
        /\ sent.reply.health =
                (IF api_key # "" /\ ~StoreFaulted THEN "healthy" ELSE "degraded")

\* C21: the usage statistics GET /api/health reports are those of the whole
\* process: the total request count is the number of generate_response
\* attempts made since the process started, the total token count the sum
\* of the tokens their responses reported.
C21_UsageIsProcessWide ==
    (/\ sent.req.kind = "health"
     /\ sent.reply.status = 200
     /\ hUsage.requests < MaxCounted)
    => /\ sent.reply.total_requests = hUsage.requests
       /\ sent.reply.total_tokens_used = hUsage.tokens

\* C23: the request counter of an OpenAIService is the number of upstream
\* calls it has begun, the probe of validate_api_key included, also while a
\* call is in progress and after a call that failed.
C23_EveryAttemptCounted ==
    /\ \A p \in Procs : loc[p].request_count = loc[p].hCalls
    /\ sent.loc.request_count = sent.loc.hCalls

\* C28: validate_api_key never raises; it reports valid = false exactly when
\* its probe failed with an authentication failure, and model_available =
\* true exactly when its probe succeeded.
C28_ValidateKeyOptimistic ==
    (/\ sent.req.kind = "health"
     /\ sent.loc.script # <<>>)
    => LET o == sent.loc.script[1]
           v == sent.reply.api_validation
       IN  /\ sent.reply.status = 200
           /\ validate_api_key(o, openai_model).raised = NoExc
           /\ v.message # "API validation failed"
           /\ v.valid <=> ~IsAuthFailure(o)
           /\ v.model_available <=> o.exc = ""

\* The probe failed with a rate-limit error: the key is reported valid.
C28_Witness ==
    /\ sent.req.kind = "health"
    /\ sent.loc.script # <<>>
    /\ sent.loc.script[1].exc = "RateLimitError"
    /\ sent.reply.api_validation.valid
    /\ ~sent.reply.api_validation.model_available

C25_NoKeyNoService ==
    api_key = "" =>
        /\ \A p \in Procs : pc[p] # "upstream" /\ loc[p].hCalls = 0
        /\ hUsage.requests = 0
        /\ disk.rows = <<>> /\ work.rows = <<>>
        /\ sent.req.kind = "ask" =>
                /\ sent.reply.status = 500
                /\ sent.reply.error = "Service Configuration Error"
                /\ sent.loc.hCalls = 0

\* A prompt that would be accepted is refused.
C25_Witness ==
    /\ api_key = ""
    /\ sent.req = [kind |-> "ask", prompt |-> "Hello"]
    /\ sent.reply.status = 500

\* The reason a rejection gives, read from the detail of the reply: the
\* empty and the whitespace-only prompt are refused as empty input, a single
\* character as insufficient content.
IsEmptyInput(reply) ==
    \/ Contains(lower(reply.details), "empty")
    \/ Contains(lower(reply.details), "whitespace")

IsInsufficientContent(reply) == Contains(lower(reply.details), "meaningful characters")

\* C26: a prompt of fewer than 2 characters once trimmed, the empty and the
\* whitespace-only prompt included, is rejected while the request body is
\* validated, as empty input or as insufficient content, and no upstream
\* call is made for it.
C26_ShortPromptRejected ==
    (/\ sent.req.kind = "ask"
     /\ api_key # ""
     /\ Len(strip(sent.req.prompt)) < MinMeaningful)
    => /\ sent.reply.status = 422
       /\ IsEmptyInput(sent.reply) \/ IsInsufficientContent(sent.reply)
       /\ IsInsufficientContent(sent.reply) <=> Len(strip(sent.req.prompt)) = 1
       /\ sent.loc.hCalls = 0

C26_Witness ==
    /\ api_key # ""
    /\ sent.req = [kind |-> "ask", prompt |-> " a "]
    /\ sent.reply.status = 422

\* s holds a run of n or more consecutive identical characters.
HasRun(s, n) ==
    \E i \in 1..(Len(s) - n + 1) :
        \A m \in i..(i + n - 1) : Char(s, m) = Char(s, i)

\* C27: of the prompts that pass the other checks, the one whose normalised
\* form (leading and trailing whitespace stripped) holds a run of 50 or more
\* identical characters is rejected for excessive repetition and makes no
\* upstream call, and the one whose longest run is 49 or fewer is accepted.
C27_RepetitionBoundary ==
    (/\ sent.req.kind = "ask"
     /\ api_key # ""
     /\ Len(strip(sent.req.prompt)) >= MinMeaningful
     /\ ~harmful_patterns(sent.req.prompt))
    => IF HasRun(strip(sent.req.prompt), RepeatMin + 1)
       THEN /\ sent.reply.status = 422
            /\ Contains(lower(sent.reply.details), "repetition")
            /\ sent.loc.hCalls = 0
       ELSE /\ sent.reply.status # 422
            /\ sent.loc.hCalls >= 1

\* The reply in sent ends a request that made a store call.
StoreCall ==
    \/ sent.req.kind \in {"list", "clear"}
    \/ sent.req.kind = "ask" /\ Passed(sent.loc, "PersistAttempted")
    \/ sent.req.kind = "health" /\ sent.reply.health \in {"healthy", "degraded"}

\* C29: at most one connection is open, and it is the shared one; init_db
\* runs only for a store call that found no connection; the body of a store
\* call runs with the connection in place; a store call that fails leaves no
\* connection, and one that succeeds leaves one, also when it found none
\* because an earlier call failed or close() was called.
C29_ConnectionLifecycle ==
    /\ opened <= 1
    /\ connection <=> opened = 1
    /\ connection <=> hLost = ""
    /\ \A p \in Procs :
        /\ pc[p] = "init" => lock = p /\ ~connection
        /\ pc[p] \in StorePcs \ {"init"} => lock = p /\ connection
    /\ StoreCall =>
        IF StoreFaulted THEN ~connection /\ hLost = "failed" ELSE connection

\* A listing succeeds after a store call failed and closed the connection.
C29_Witness ==
    /\ sent.req.kind = "list"
    /\ sent.reply.status = 200
    /\ ~StoreFaulted
    /\ sent.loc.hPreLost = "failed"
    /\ connection

\* C30: the stored records are only ever added to or cleared.  While a store
\* call is in progress the records it found are still the first records of
\* the table; a save that commits adds one record after them; a listing, a
\* count and every store call that fails leave the table as they found it;
\* only a clear that succeeds removes records, and it removes them all.
C30_AppendOnly ==
    /\ \A p \in Procs : InStore(p) => IsPrefix(loc[p].hPre.rows, disk.rows)
    /\ StoreCall =>
        /\ sent.loc.hPost = disk
        /\ IF Cleared THEN disk.rows = <<>>
           ELSE IF Saved THEN
                /\ IsPrefix(sent.loc.hPre.rows, disk.rows)
                /\ Len(disk.rows) = Len(sent.loc.hPre.rows) + 1
           ELSE disk.rows = sent.loc.hPre.rows

\* A save adds a record to a table that holds records saved at an earlier
\* time.
C30_Witness ==
    /\ Saved
    /\ sent.loc.hPre.rows # <<>>
    /\ sent.loc.hPre.rows[1].timestamp < now
    /\ Len(disk.rows) = Len(sent.loc.hPre.rows) + 1

\* The upstream outcome o is a result without choices, without a message or
\* with empty message content.
Malformed(o) == o.exc = "" /\ (o.shape # "ok" \/ o.content = "")

\* C31: when the first upstream call returns a result with no choices, no
\* message or empty content, the request fails with the error of the shape
\* check after exactly 1 upstream call: its reply carries no response text
\* and the save is never attempted, so no record is stored.
C31_MalformedResponseFails ==
    (/\ sent.req.kind = "ask"
     /\ sent.loc.hCalls >= 1
     /\ Malformed(sent.loc.script[1]))
    => /\ sent.loc.hCalls = 1
       /\ sent.loc.request_count = 1
       /\ sent.reply.status \notin {0, 200}
       /\ sent.reply.message = ResponseShapeError(sent.loc.script[1]).msg
       /\ sent.reply.response = ""
       /\ ~Passed(sent.loc, "PersistAttempted")
       /\ sent.loc.id = 0
       /\ disk.rows = <<>> \/ \A i \in 1..Len(disk.rows) : disk.rows[i].response # ""

\* The upstream returned a result whose message has empty content.
C31_Witness ==
    /\ sent.req = [kind |-> "ask", prompt |-> "Hello"]
    /\ sent.loc.hCalls = 1
    /\ sent.loc.script[1] = Returns("ok", "", 0)
    /\ sent.reply.status = 503

\* The ids of the rows of db are 1, 2, ..., in the order of insertion.
Dense(db) == \A i \in 1..Len(db.rows) : db.rows[i].id = i

\* C32: in every state, whatever saves and clears succeeded or failed before,
\* the ids of the stored records are exactly 1..n, n the number of records,
\* without gap or duplicate; the same holds of the rows the connection sees
\* inside a transaction, and the next id to be given is n + 1.
C32_IdsDense ==
    /\ Dense(disk)
    /\ Ids(disk) = 1..Len(disk.rows)
    /\ Dense(work)
    /\ NextRowId(disk) = Len(disk.rows) + 1

\* A save commits the second record after a clear, a store call having
\* failed before.
C32_Witness ==
    /\ Saved
    /\ sent.loc.hPreFaults > 0
    /\ Len(sent.loc.hPreLog) = 2
    /\ sent.loc.hPreLog[1].op = "clear"
    /\ sent.loc.id = 2
    /\ Ids(disk) = {1, 2}

\* C33: the lock is only ever held by a coroutine that is inside a store
\* call, so it is free again when the call has ended, by a return or by an
\* exception, that of init_db included; and every coroutine that waits for
\* the lock, or holds it, ends its store call.
C33_NoStoreCallBlocked ==
    /\ [](lock # NoProc => InStore(lock))
    /\ \A p \in Procs : (pc[p] = "lock" \/ InStore(p)) ~> (pc[p] = "idle")

\* A coroutine waits for the lock at the moment the store call of another
\* ends with the failure of init_db.
C33_Witness ==
    /\ \E p \in Procs : pc[p] = "lock" /\ sent.p # p
    /\ sent.p # NoProc
    /\ sent.req.kind = "list"
    /\ sent.reply.status = 500
    /\ sent.loc.hPreLost # ""
    /\ Contains(sent.reply.message, "Database initialization failed")
    /\ lock = NoProc

\* C34: the model name in the reply to a POST /api/ask-ai and in the record
\* stored for it is the model the AI client is configured with, the one its
\* upstream call was made with.
C34_ModelNameIsConfigured ==
    (sent.req.kind = "ask" /\ sent.reply.status = 200) =>
        /\ sent.reply.model = openai_model
        /\ Saved => Last(disk.rows).model = openai_model

====
